---- MODULE Spec2Model ----
(***************************************************************************)
(* Model of amazon/ionbenchmark/benchmark_runner.py: run_benchmark,        *)
(* _create_test_fun and _trace_memory_allocation, together with the        *)
(* behaviour of the timeit.Timer methods (timeit, autorange, repeat) that  *)
(* run_benchmark calls and of the process-wide garbage-collector flag and  *)
(* tracemalloc switch they act on.                                         *)
(***************************************************************************)
EXTENDS Integers, Sequences, FiniteSets, TLC

\* Largest warm-up count drawn for the BenchmarkSpec (the smallest is -1).
MaxWarmups == 1
\* Largest iteration count drawn for the BenchmarkSpec (the smallest is -1).
MaxIterations == 2
\* Number of autorange trials after which the clock is taken to have advanced.
MaxCalibSteps == 3

\* timeit.Timer.autorange stops at time_taken >= 0.2, i.e. 1/5 of a timer unit.
ThresholdNum == 1
ThresholdDen == 5

VARIABLES
    benchmark_spec,     \* the BenchmarkSpec handed to run_benchmark
    pypy,               \* _pypy: the runtime has no tracemalloc
    file_readable,      \* the configured input file can be opened
    gc_at_entry,        \* gc.isenabled() when run_benchmark was called
    gc_enabled,         \* gc.isenabled() now
    tracing,            \* tracemalloc.is_tracing() now
    tracing_starts,     \* number of tracemalloc.start() calls so far
    pc,                 \* position in run_benchmark
    test_fn,            \* the closure returned by _create_test_fun
    log,                \* one entry per TestFunction invocation, in order
    file_opens,         \* opens of the input file so far
    files_open,         \* input-file handles currently open
    temp_created,       \* temporary files created so far
    temp_open,          \* temporary files currently open
    peak_memory_usage,  \* local of run_benchmark: <<>> is None
    calib,              \* (number, time_taken) of each autorange trial
    batch_size,         \* local of run_benchmark: <<>> is unset
    timings,            \* the list Timer.repeat is building
    result,             \* <<>> or <<BenchmarkResult>>
    error               \* the exception propagating out of run_benchmark

vars == <<benchmark_spec, pypy, file_readable, gc_at_entry, gc_enabled, tracing,
          tracing_starts, pc, test_fn, log, file_opens, files_open, temp_created,
          temp_open, peak_memory_usage, calib, batch_size, timings, result, error>>

None == <<>>
Some(v) == <<v>>

IoTypes == {"buffer", "file", "network"}
Commands == {"read", "write", "delete"}
Apis == {"load_dump", "streaming"}
Formats == {"ion_binary", "ion_text", "json", "cbor"}
Contents == {"bytesA", "bytesB"}
Counts(max) == (0 - 1) .. max

\* amazon.ionbenchmark.Format.format_is_binary
format_is_binary(f) == f \in {"ion_binary", "cbor"}
\* amazon.ionbenchmark.Format.format_is_ion
format_is_ion(f) == f \in {"ion_binary", "ion_text"}

NoError == [kind |-> "none", args |-> <<>>]
NoFn == [kind |-> "none", buffer |-> "none", data_obj |-> "none",
         data_file |-> "none", mode |-> "none"]

get_warmups(s) == s.warmups
get_iterations(s) == s.iterations

match_arg(s) == <<s.io_type, s.command, s.api>>

Supported == {<<"buffer", "read", "load_dump">>, <<"buffer", "write", "load_dump">>,
              <<"file", "read", "load_dump">>, <<"file", "write", "load_dump">>}

\* TempMode with the Ion test left out: Ion text would be written in text mode.
TempMode_binary_only(f) == IF format_is_binary(f) THEN "wb" ELSE "wt"

\* Mode of the temporary file of the (file, write) closures (lines 99-106).
TempMode(f) == IF format_is_binary(f) \/ format_is_ion(f) THEN "wb" ELSE "wt"

\* create_test_fun with a default branch instead of the final raise.
create_test_fun_default(s, readable) ==
    LET m == match_arg(s) IN
    IF m = <<"buffer", "read", "load_dump">> THEN
        IF readable
        THEN [fn |-> [NoFn EXCEPT !.kind = "buffer_read", !.buffer = s.input_contents],
              opens |-> 1, error |-> NoError]
        ELSE [fn |-> NoFn, opens |-> 0, error |-> [kind |-> "IOError", args |-> <<>>]]
    ELSE IF m = <<"file", "read", "load_dump">> THEN
        [fn |-> [NoFn EXCEPT !.kind = "file_read", !.data_file = s.input_file],
         opens |-> 0, error |-> NoError]
    ELSE IF m = <<"file", "write", "load_dump">> THEN
        [fn |-> [NoFn EXCEPT !.kind = "file_write", !.data_obj = s.data_object,
                             !.mode = TempMode(s.format)],
         opens |-> 0, error |-> NoError]
    ELSE [fn |-> [NoFn EXCEPT !.kind = "buffer_write", !.data_obj = s.data_object],
          opens |-> 0, error |-> NoError]

\* create_test_fun reading the input file eagerly in the (file, read) branch too.
create_test_fun_eager(s, readable) ==
    LET m == match_arg(s) IN
    IF m = <<"buffer", "read", "load_dump">> THEN
        IF readable
        THEN [fn |-> [NoFn EXCEPT !.kind = "buffer_read", !.buffer = s.input_contents],
              opens |-> 1, error |-> NoError]
        ELSE [fn |-> NoFn, opens |-> 0, error |-> [kind |-> "IOError", args |-> <<>>]]
    ELSE IF m = <<"buffer", "write", "load_dump">> THEN
        [fn |-> [NoFn EXCEPT !.kind = "buffer_write", !.data_obj = s.data_object],
         opens |-> 0, error |-> NoError]
    ELSE IF m = <<"file", "read", "load_dump">> THEN
        IF readable
        THEN [fn |-> [NoFn EXCEPT !.kind = "file_read", !.data_file = s.input_file],
              opens |-> 1, error |-> NoError]
        ELSE [fn |-> NoFn, opens |-> 0, error |-> [kind |-> "IOError", args |-> <<>>]]
    ELSE IF m = <<"file", "write", "load_dump">> THEN
        [fn |-> [NoFn EXCEPT !.kind = "file_write", !.data_obj = s.data_object,
                             !.mode = TempMode(s.format)],
         opens |-> 0, error |-> NoError]
    ELSE [fn |-> NoFn, opens |-> 0,
          error |-> [kind |-> "NotImplementedError", args |-> m]]

\* The outcome of _create_test_fun: the closure built, how many times the
\* input file was opened while building it, and the exception raised if any.
create_test_fun(s, readable) ==
    LET m == match_arg(s) IN
    IF m = <<"buffer", "read", "load_dump">> THEN
        IF readable
        THEN [fn |-> [NoFn EXCEPT !.kind = "buffer_read", !.buffer = s.input_contents],
              opens |-> 1, error |-> NoError]
        ELSE [fn |-> NoFn, opens |-> 0, error |-> [kind |-> "IOError", args |-> <<>>]]
    ELSE IF m = <<"buffer", "write", "load_dump">> THEN
        [fn |-> [NoFn EXCEPT !.kind = "buffer_write", !.data_obj = s.data_object],
         opens |-> 0, error |-> NoError]
    ELSE IF m = <<"file", "read", "load_dump">> THEN
        [fn |-> [NoFn EXCEPT !.kind = "file_read", !.data_file = s.input_file],
         opens |-> 0, error |-> NoError]
    ELSE IF m = <<"file", "write", "load_dump">> THEN
        [fn |-> [NoFn EXCEPT !.kind = "file_write", !.data_obj = s.data_object,
                             !.mode = TempMode(s.format)],
         opens |-> 0, error |-> NoError]
    ELSE [fn |-> NoFn, opens |-> 0,
          error |-> [kind |-> "NotImplementedError", args |-> m]]

\* One invocation of the closure fn. `outcome` is "none" when the invocation
\* returns, "SerializationFailure" when the loader/dumper operation raises, and
\* "IOError" when the invocation's own file acquisition raises: open(data_file)
\* of (file, read), tempfile.TemporaryFile() of (file, write). The entry records what the invocation did and the
\* process state it ran under.
BaseEntry(phase, sample, gcnow, tracenow) ==
    [phase |-> phase, sample |-> sample, gc |-> gcnow, tracing |-> tracenow,
     op |-> "none", arg |-> "none", mode |-> "none",
     opens |-> 0, closes |-> 0, temps |-> 0, released |-> 0, raised |-> "none"]

\* What the loader/dumper call of an invocation that reached it raises.
LoaderError(outcome) == IF outcome = "SerializationFailure" THEN outcome ELSE "none"

\* test_fn_call whose (file, write) branch releases the temporary file only when
\* dump returns (no `with` block).
test_fn_call_leak(fn, readable, outcome, phase, sample, gcnow, tracenow) ==
    LET e == BaseEntry(phase, sample, gcnow, tracenow) IN
    IF fn.kind = "buffer_read" THEN
        [e EXCEPT !.op = "loads", !.arg = fn.buffer, !.raised = LoaderError(outcome)]
    ELSE IF fn.kind = "buffer_write" THEN
        [e EXCEPT !.op = "dumps", !.arg = fn.data_obj, !.raised = LoaderError(outcome)]
    ELSE IF fn.kind = "file_read" THEN
        IF readable
        THEN [e EXCEPT !.op = "load", !.arg = fn.data_file, !.mode = "rb",
                       !.opens = 1, !.closes = 1, !.raised = LoaderError(outcome)]
        ELSE [e EXCEPT !.raised = "IOError"]
    ELSE
        IF outcome = "IOError"
        THEN [e EXCEPT !.raised = "IOError"]
        ELSE [e EXCEPT !.op = "dump", !.arg = fn.data_obj, !.mode = fn.mode,
                       !.temps = 1,
                       !.released = IF outcome = "none" THEN 1 ELSE 0,
                       !.raised = LoaderError(outcome)]

test_fn_call(fn, readable, outcome, phase, sample, gcnow, tracenow) ==
    LET e == BaseEntry(phase, sample, gcnow, tracenow) IN
    IF fn.kind = "buffer_read" THEN
        [e EXCEPT !.op = "loads", !.arg = fn.buffer, !.raised = LoaderError(outcome)]
    ELSE IF fn.kind = "buffer_write" THEN
        [e EXCEPT !.op = "dumps", !.arg = fn.data_obj, !.raised = LoaderError(outcome)]
    ELSE IF fn.kind = "file_read" THEN
        IF readable
        THEN [e EXCEPT !.op = "load", !.arg = fn.data_file, !.mode = "rb",
                       !.opens = 1, !.closes = 1, !.raised = LoaderError(outcome)]
        ELSE [e EXCEPT !.raised = "IOError"]
    ELSE
        IF outcome = "IOError"
        THEN [e EXCEPT !.raised = "IOError"]
        ELSE [e EXCEPT !.op = "dump", !.arg = fn.data_obj, !.mode = fn.mode,
                       !.temps = 1, !.released = 1, !.raised = LoaderError(outcome)]

\* Whether every invocation of fn fails at open(data_file).
OpenFails(fn, readable) == fn.kind = "file_read" /\ ~readable

NoFail == [at |-> 0, kind |-> "none"]

\* What the invocation that raises may raise: the I/O error alone when the
\* input file of (file, read) cannot be opened, the loader/dumper's error
\* otherwise, and for (file, write) also the I/O error of a temporary file
\* that cannot be created.
FailKinds(fn, readable) ==
    IF OpenFails(fn, readable) THEN {"IOError"}
    ELSE IF fn.kind = "file_write" THEN {"SerializationFailure", "IOError"}
    ELSE {"SerializationFailure"}

\* How a run of `cnt` invocations may go: none raises (NoFail), or the
\* invocation `at` raises `kind` and ends the run.
FailPoints(fn, readable, cnt) ==
    LET stops == [at : 1 .. cnt, kind : FailKinds(fn, readable)] IN
    IF OpenFails(fn, readable)
    THEN (IF cnt >= 1 THEN {f \in stops : f.at = 1} ELSE {NoFail})
    ELSE {NoFail} \cup stops

RECURSIVE SumOf(_, _)
SumOf(entries, field) ==
    IF entries = <<>> THEN 0
    ELSE Head(entries)[field] + SumOf(Tail(entries), field)

\* IterCount running the statement once more than asked.
IterCount_extra(number) == IF number < 0 THEN 0 ELSE number + 1

\* Rounds of `for _i in itertools.repeat(None, number)`: none for number <= 0.
IterCount(number) == IF number < 0 THEN 0 ELSE number

\* SetupGc with the two setup statements swapped.
SetupGc_swapped(py_gc_disabled) == py_gc_disabled

\* GC state after the Timer's setup statement (lines 51-55).
SetupGc(py_gc_disabled) == ~py_gc_disabled

\* Timeit that leaves the GC as the setup statement set it (no restore).
Timeit_norestore(number, phase, sample, gcnow, fail) ==
    LET gcin == SetupGc(benchmark_spec.py_gc_disabled)
        cnt == IterCount(number)
        ran == IF fail.at = 0 THEN cnt ELSE fail.at
    IN [entries |-> [k \in 1 .. ran |->
                        test_fn_call(test_fn, file_readable,
                                     IF k = fail.at THEN fail.kind ELSE "none",
                                     phase, sample, gcin, tracing)],
        raised |-> fail.at # 0,
        gc |-> gcin]

\* timeit.Timer.timeit(number): remembers the GC state, disables GC, runs the
\* setup statement and then the statement `number` times, and re-enables GC
\* in a finally clause if it was enabled on entry.
Timeit(number, phase, sample, gcnow, fail) ==
    LET gcold == gcnow
        gcin == SetupGc(benchmark_spec.py_gc_disabled)
        cnt == IterCount(number)
        ran == IF fail.at = 0 THEN cnt ELSE fail.at
    IN [entries |-> [k \in 1 .. ran |->
                        test_fn_call(test_fn, file_readable,
                                     IF k = fail.at THEN fail.kind ELSE "none",
                                     phase, sample, gcin, tracing)],
        raised |-> fail.at # 0,
        gc |-> IF gcold THEN TRUE ELSE gcin]

\* The number tried at the s-th autorange trial (s = 0, 1, 2, ...): 1, 2, 5, 10, ...
RECURSIVE Pow10(_)
Pow10(k) == IF k = 0 THEN 1 ELSE 10 * Pow10(k - 1)
\* AutorangeNumber doubling at every trial: 1, 2, 4, 8, ...
RECURSIVE Pow2(_)
Pow2(k) == IF k = 0 THEN 1 ELSE 2 * Pow2(k - 1)
AutorangeNumber_doubling(s) == Pow2(s)
AutorangeNumber(s) == Pow10(s \div 3) * (<<1, 2, 5>>[(s % 3) + 1])

\* time_taken >= 0.2
ClearsThreshold(d) == d * ThresholdDen >= ThresholdNum

\* Elapsed times of one timer call, in nanoseconds (time.perf_counter_ns): 0 when
\* the clock did not advance, and 1 standing for every positive reading. The code
\* does nothing with an elapsed time but compare it with 0.2 and store it.
Durations == {0, 1}

\* Peaks tracemalloc reports, in bytes: 0, and 1 standing for every positive peak.
\* The code stores the peak and never inspects it.
Peaks == {0, 1}

Init ==
    /\ benchmark_spec \in
          [io_type : IoTypes, command : Commands, api : Apis, format : Formats,
           py_gc_disabled : BOOLEAN, warmups : Counts(MaxWarmups),
           iterations : Counts(MaxIterations), input_file : {"input_file"},
           input_contents : Contents, data_object : {"data_obj"}]
    /\ pypy \in BOOLEAN
    /\ file_readable \in BOOLEAN
    /\ gc_at_entry \in BOOLEAN
    /\ gc_enabled = gc_at_entry
    /\ tracing = FALSE
    /\ tracing_starts = 0
    /\ pc = "create"
    /\ test_fn = NoFn
    /\ log = <<>>
    /\ file_opens = 0
    /\ files_open = 0
    /\ temp_created = 0
    /\ temp_open = 0
    /\ peak_memory_usage = None
    /\ calib = <<>>
    /\ batch_size = None
    /\ timings = <<>>
    /\ result = None
    /\ error = NoError

\* Bookkeeping of the invocations `entries` on the log and the file counters.
Record(entries) ==
    /\ log' = log \o entries
    /\ file_opens' = file_opens + SumOf(entries, "opens")
    /\ files_open' = files_open + SumOf(entries, "opens") - SumOf(entries, "closes")
    /\ temp_created' = temp_created + SumOf(entries, "temps")
    /\ temp_open' = temp_open + SumOf(entries, "temps") - SumOf(entries, "released")

RaisedKind(entries) == entries[Len(entries)].raised

\* run_benchmark line 43: test_fun = _create_test_fun(benchmark_spec)
CreateTestFun ==
    /\ pc = "create"
    /\ LET r == create_test_fun(benchmark_spec, file_readable) IN
        /\ test_fn' = r.fn
        /\ file_opens' = file_opens + r.opens
        /\ error' = r.error
        /\ pc' = IF r.error.kind = "none" THEN "memory" ELSE "raised"
    /\ UNCHANGED <<benchmark_spec, pypy, file_readable, gc_at_entry, gc_enabled,
                   tracing, tracing_starts, log, files_open, temp_created, temp_open,
                   peak_memory_usage, calib, batch_size, timings, result>>

\* run_benchmark lines 46-47: no memory profiling on PyPy.
SkipMemoryProfiling ==
    /\ pc = "memory"
    /\ pypy
    /\ peak_memory_usage' = None
    /\ pc' = "warmup"
    /\ UNCHANGED <<benchmark_spec, pypy, file_readable, gc_at_entry, gc_enabled,
                   tracing, tracing_starts, test_fn, log, file_opens, files_open,
                   temp_created, temp_open, calib, batch_size, timings, result, error>>

\* What _trace_memory_allocation leaves behind: gc.disable(); tracemalloc.start();
\* test_fn(); then, only if test_fn returned, tracemalloc.stop(); gc.enable().
trace_memory_allocation(entry) ==
    IF entry.raised = "none"
    THEN [gc |-> TRUE, tracing |-> FALSE]
    ELSE [gc |-> FALSE, tracing |-> TRUE]

\* run_benchmark line 49: peak_memory_usage = _trace_memory_allocation(test_fun)
TraceMemoryAllocation ==
    /\ pc = "memory"
    /\ ~pypy
    /\ \E fail \in FailPoints(test_fn, file_readable, 1), peak \in Peaks :
        LET entry == test_fn_call(test_fn, file_readable, fail.kind,
                                  "memory", 0, FALSE, TRUE)
            after == trace_memory_allocation(entry)
        IN
        /\ Record(<<entry>>)
        /\ tracing_starts' = tracing_starts + 1
        /\ gc_enabled' = after.gc
        /\ tracing' = after.tracing
        /\ IF entry.raised = "none"
           THEN /\ peak_memory_usage' = Some(peak)
                /\ pc' = "warmup"
                /\ error' = error
           ELSE /\ peak_memory_usage' = peak_memory_usage
                /\ pc' = "raised"
                /\ error' = [kind |-> entry.raised, args |-> <<>>]
    /\ UNCHANGED <<benchmark_spec, pypy, file_readable, gc_at_entry, test_fn, calib,
                   batch_size, timings, result>>

\* run_benchmark line 60: timer.timeit(benchmark_spec.get_warmups())
WarmUp ==
    /\ pc = "warmup"
    /\ LET number == get_warmups(benchmark_spec) IN
       \E fail \in FailPoints(test_fn, file_readable, IterCount(number)) :
        LET t == Timeit(number, "warmup", 0, gc_enabled, fail) IN
        /\ Record(t.entries)
        /\ gc_enabled' = t.gc
        /\ IF t.raised
           THEN /\ pc' = "raised"
                /\ error' = [kind |-> RaisedKind(t.entries), args |-> <<>>]
           ELSE /\ pc' = "autorange"
                /\ error' = error
    /\ UNCHANGED <<benchmark_spec, pypy, file_readable, gc_at_entry, tracing,
                   tracing_starts, test_fn, peak_memory_usage, calib, batch_size,
                   timings, result>>

\* run_benchmark line 63: one trial of timer.autorange()
AutorangeStep ==
    /\ pc = "autorange"
    /\ LET s == Len(calib)
           number == AutorangeNumber(s)
       IN
       \E fail \in FailPoints(test_fn, file_readable, number), d \in Durations :
        LET t == Timeit(number, "calibration", s + 1, gc_enabled, fail) IN
        /\ s + 1 >= MaxCalibSteps => ClearsThreshold(d)
        /\ fail.at # 0 => d = 1
        /\ Record(t.entries)
        /\ gc_enabled' = t.gc
        /\ IF t.raised
           THEN /\ pc' = "raised"
                /\ error' = [kind |-> RaisedKind(t.entries), args |-> <<>>]
                /\ UNCHANGED <<calib, batch_size>>
           ELSE /\ calib' = Append(calib, [number |-> number, time_taken |-> d])
                /\ error' = error
                /\ IF ClearsThreshold(d)
                   THEN /\ batch_size' = Some(number)
                        /\ pc' = "repeat"
                   ELSE /\ batch_size' = batch_size
                        /\ pc' = "autorange"
    /\ UNCHANGED <<benchmark_spec, pypy, file_readable, gc_at_entry, tracing,
                   tracing_starts, test_fn, peak_memory_usage, timings, result>>

\* RepeatContinues with an off-by-one loop bound.
RepeatContinues_inclusive(done, repeat) == done <= repeat

\* Whether Timer.repeat's `for i in range(repeat)` has another round to run.
RepeatContinues(done, repeat) == done < repeat

\* run_benchmark line 64: one round of timer.repeat(get_iterations(), batch_size)
RepeatStep ==
    /\ pc = "repeat"
    /\ RepeatContinues(Len(timings), get_iterations(benchmark_spec))
    /\ LET number == batch_size[1] IN
       \E fail \in FailPoints(test_fn, file_readable, number), d \in Durations :
        LET t == Timeit(number, "timed", Len(timings) + 1, gc_enabled, fail) IN
        /\ fail.at # 0 => d = 1
        /\ Record(t.entries)
        /\ gc_enabled' = t.gc
        /\ IF t.raised
           THEN /\ pc' = "raised"
                /\ error' = [kind |-> RaisedKind(t.entries), args |-> <<>>]
                /\ timings' = timings
           ELSE /\ pc' = "repeat"
                /\ error' = error
                /\ timings' = Append(timings, d)
    /\ UNCHANGED <<benchmark_spec, pypy, file_readable, gc_at_entry, tracing,
                   tracing_starts, test_fn, peak_memory_usage, calib, batch_size,
                   result>>

\* run_benchmark line 66: return BenchmarkResult(timings, batch_size, peak_memory_usage)
Return ==
    /\ pc = "repeat"
    /\ ~RepeatContinues(Len(timings), get_iterations(benchmark_spec))
    /\ result' = Some([timings |-> timings, batch_size |-> batch_size[1],
                       peak_memory_usage |-> peak_memory_usage])
    /\ pc' = "returned"
    /\ UNCHANGED <<benchmark_spec, pypy, file_readable, gc_at_entry, gc_enabled,
                   tracing, tracing_starts, test_fn, log, file_opens, files_open,
                   temp_created, temp_open, peak_memory_usage, calib, batch_size,
                   timings, error>>

Next ==
    \/ CreateTestFun
    \/ SkipMemoryProfiling
    \/ TraceMemoryAllocation
    \/ WarmUp
    \/ AutorangeStep
    \/ RepeatStep
    \/ Return

Spec == Init /\ [][Next]_vars

TypeOK ==
    /\ pc \in {"create", "memory", "warmup", "autorange", "repeat", "returned", "raised"}
    /\ gc_enabled \in BOOLEAN
    /\ tracing \in BOOLEAN
    /\ Len(result) <= 1

(***************************************************************************)
(* Properties                                                              *)
(***************************************************************************)

Invocations == 1 .. Len(log)
IoType == benchmark_spec.io_type
Command == benchmark_spec.command
Api == benchmark_spec.api
IsCombination(io, cmd) == IoType = io /\ Command = cmd /\ Api = "load_dump"

\* C1: every triple other than (buffer|file) x (read|write) x load_dump makes
\* run_benchmark fail with NotImplementedError naming the triple, before any
\* measurement: no invocation, no loader/dumper operation, no file touched,
\* tracing never started, the GC flag as it was at entry, no result.
C1_UnsupportedFailsBeforeMeasurement ==
    (/\ ~(IoType \in {"buffer", "file"} /\ Command \in {"read", "write"}
                                        /\ Api = "load_dump")
     /\ pc # "create")
    => /\ pc = "raised"
       /\ error = [kind |-> "NotImplementedError", args |-> <<IoType, Command, Api>>]
       /\ log = <<>>
       /\ file_opens = 0
       /\ temp_created = 0
       /\ tracing_starts = 0
       /\ ~tracing
       /\ gc_enabled = gc_at_entry
       /\ result = None

C1_Witness ==
    /\ pc = "raised"
    /\ error.kind = "NotImplementedError"
    /\ error.args = <<"network", "read", "load_dump">>
    /\ ~gc_at_entry

\* C2 as stated: a returned result has as many timings as the configured
\* iteration count, whatever that count is.
C2_LenTimingsIsIterations ==
    pc = "returned" => Len(result[1].timings) = get_iterations(benchmark_spec)

\* C2 amended: a returned result has as many timings as the configured
\* iteration count when that count is >= 0, and none when it is negative.
C2_LenTimingsIsIterationsOrZero ==
    pc = "returned" =>
        Len(result[1].timings) =
            (IF get_iterations(benchmark_spec) >= 0
             THEN get_iterations(benchmark_spec) ELSE 0)

C2_Witness ==
    /\ pc = "returned"
    /\ get_iterations(benchmark_spec) = 2
    /\ Len(result[1].timings) = 2

\* C3: the returned batch_size is >= 1 and a member of 1, 2, 5, 10, 20, 50;
\* calibration tried that sequence from 1 on, in order; the last trial ran
\* batch_size invocations and measured >= 0.2, every earlier one measured less.
C3_BatchSizeCalibrated ==
    pc = "returned" =>
        LET bs == result[1].batch_size
            k == Len(calib)
        IN /\ bs >= 1
           /\ k >= 1
           /\ k <= 6
           /\ \A i \in 1 .. k : calib[i].number = <<1, 2, 5, 10, 20, 50>>[i]
           /\ calib[k].number = bs
           /\ 5 * calib[k].time_taken >= 1
           /\ \A i \in 1 .. (k - 1) :
                 /\ 5 * calib[i].time_taken < 1
                 /\ calib[i].number < bs
           /\ Cardinality({i \in Invocations :
                 log[i].phase = "calibration" /\ log[i].sample = k}) = bs

C3_Witness ==
    /\ pc = "returned"
    /\ result[1].batch_size = 5
    /\ Len(calib) = 3

\* C4 as stated: for (buffer, read) and for (file, read) alike, the input
\* file is opened exactly once, at construction (which fails there if the file
\* is unreadable), and no invocation opens it.
C4_ReadOpensOnceAtConstruction ==
    ((IsCombination("buffer", "read") \/ IsCombination("file", "read"))
        /\ pc # "create")
    => IF file_readable
       THEN /\ file_opens = 1
            /\ \A i \in Invocations : log[i].opens = 0
       ELSE /\ pc = "raised"
            /\ log = <<>>

\* C4 amended: for (buffer, read) the input file is opened exactly once, at
\* construction (which fails there with the I/O error if the file is
\* unreadable), and no invocation opens it; for (file, read) construction
\* opens nothing and never fails, and every invocation opens the file once and
\* closes it, or fails at the open if the file is unreadable.
C4_OpensPerCombination ==
    /\ (IsCombination("buffer", "read") /\ pc # "create")
       => IF file_readable
          THEN /\ file_opens = 1
               /\ files_open = 0
               /\ \A i \in Invocations : log[i].opens = 0
          ELSE /\ pc = "raised"
               /\ error.kind = "IOError"
               /\ log = <<>>
               /\ file_opens = 0
    /\ (IsCombination("file", "read") /\ pc # "create")
       => /\ files_open = 0
          /\ log = <<>> => (file_opens = 0 /\ error.kind = "none")
          /\ IF file_readable
             THEN /\ file_opens = Len(log)
                  /\ \A i \in Invocations : log[i].opens = 1 /\ log[i].closes = 1
             ELSE /\ file_opens = 0
                  /\ Len(log) <= 1
                  /\ \A i \in Invocations : log[i].raised = "IOError"

C4_Witness ==
    /\ IsCombination("file", "read")
    /\ pc = "returned"
    /\ Len(log) >= 3
    /\ file_opens = Len(log)

\* C5 as stated: for (file, write) construction creates no temporary file,
\* and every invocation, failing or not, creates exactly one temporary file and
\* releases it: after k invocations k were created and none is open.
C5_TempFilePerInvocation ==
    (IsCombination("file", "write") /\ pc # "create")
    => /\ pc = "memory" => temp_created = 0
       /\ temp_created = Len(log)
       /\ temp_open = 0
       /\ \A i \in Invocations : log[i].temps = 1 /\ log[i].released = 1

\* C5 amended: for (file, write) construction creates no temporary file; an
\* invocation whose tempfile.TemporaryFile() call succeeds creates exactly one
\* temporary file and releases it, whether dump returns or raises; an
\* invocation whose TemporaryFile() call raises creates none, calls no dump and
\* ends the run with the I/O error. So after k invocations none of which
\* failed at creation k files were created, after a run whose last invocation
\* failed at creation k - 1 were, and none is ever left open.
C5_TempFileUnlessCreationFails ==
    (IsCombination("file", "write") /\ pc # "create")
    => /\ pc = "memory" => temp_created = 0
       /\ temp_open = 0
       /\ \A i \in Invocations :
             IF log[i].raised = "IOError"
             THEN /\ log[i].temps = 0 /\ log[i].released = 0 /\ log[i].op = "none"
                  /\ i = Len(log)
                  /\ pc = "raised"
                  /\ error.kind = "IOError"
             ELSE log[i].temps = 1 /\ log[i].released = 1 /\ log[i].op = "dump"
       /\ temp_created = Cardinality({i \in Invocations : log[i].raised # "IOError"})

C5_Witness ==
    /\ IsCombination("file", "write")
    /\ pc = "raised"
    /\ Len(log) >= 2
    /\ log[Len(log)].raised = "SerializationFailure"
    /\ temp_created = Len(log)
    /\ temp_open = 0

\* The memory-profiling call has just been left, by return or by exception.
C6_LeftTraceMemoryAllocation ==
    /\ ~pypy
    /\ pc \in {"warmup", "raised"}
    /\ Len(log) = 1
    /\ log[1].phase = "memory"

\* C6: whenever _trace_memory_allocation is left, by normal return or by a
\* propagating exception, tracing is stopped and the GC is enabled.
C6_ProfilingAlwaysCleansUp ==
    C6_LeftTraceMemoryAllocation => (~tracing /\ gc_enabled)

TimingPhases == {"warmup", "calibration", "timed"}

\* C7: every warm-up, calibration and timed invocation runs with the GC
\* disabled if py_gc_disabled is true and enabled if it is false, whatever the
\* GC state at entry and whether or not memory profiling ran.
C7_TimedInvocationsSeeConfiguredGc ==
    \A i \in Invocations :
        log[i].phase \in TimingPhases => (log[i].gc = ~benchmark_spec.py_gc_disabled)

C7_Witness ==
    /\ pc = "returned"
    /\ benchmark_spec.py_gc_disabled
    /\ gc_at_entry
    /\ ~pypy
    /\ \A ph \in TimingPhases : \E i \in Invocations : log[i].phase = ph

\* What one invocation does in each supported combination.
C8_MatchesCombination(e) ==
    /\ IsCombination("buffer", "read") =>
          /\ e.op = "loads" /\ e.arg = benchmark_spec.input_contents
          /\ e.mode = "none" /\ e.opens = 0 /\ e.temps = 0
    /\ IsCombination("buffer", "write") =>
          /\ e.op = "dumps" /\ e.arg = benchmark_spec.data_object
          /\ e.mode = "none" /\ e.opens = 0 /\ e.temps = 0
    /\ IsCombination("file", "read") =>
          /\ e.op = "load" /\ e.arg = benchmark_spec.input_file
          /\ e.mode = "rb" /\ e.opens = 1 /\ e.closes = 1 /\ e.temps = 0
    /\ IsCombination("file", "write") =>
          /\ e.op = "dump" /\ e.arg = benchmark_spec.data_object
          /\ e.mode = (IF benchmark_spec.format \in {"ion_binary", "ion_text", "cbor"}
                       THEN "wb" ELSE "wt")
          /\ e.opens = 0 /\ e.temps = 1

\* C8 as stated: every invocation performs exactly one loader/dumper
\* operation, the one of its combination, on the same captured values.
C8_EveryInvocationOneOperation ==
    \A i \in Invocations : C8_MatchesCombination(log[i])

\* C8 amended: every invocation performs exactly one loader/dumper operation,
\* the one of its combination, on the same captured values, except an
\* invocation whose own file acquisition fails: a (file, read) invocation whose
\* open of the input file raises and a (file, write) invocation whose
\* tempfile.TemporaryFile() raises end with the I/O error and perform none.
C8_OneOperationUnlessOpenFails ==
    \A i \in Invocations :
        IF log[i].raised = "IOError"
        THEN /\ \/ IsCombination("file", "read") /\ ~file_readable
                \/ IsCombination("file", "write")
             /\ log[i].op = "none"
             /\ log[i].opens = 0
             /\ log[i].temps = 0
             /\ i = Len(log)
        ELSE C8_MatchesCombination(log[i])

C8_Witness ==
    /\ IsCombination("file", "write")
    /\ benchmark_spec.format = "ion_text"
    /\ pc = "returned"
    /\ Len(log) >= 3
    /\ log[Len(log)].mode = "wb"

RECURSIVE C9_Tried(_)
C9_Tried(trials) ==
    IF trials = <<>> THEN 0 ELSE Head(trials).number + C9_Tried(Tail(trials))

\* C9: when run_benchmark returns for warm-up count w >= 0 and iteration
\* count n >= 0, the invocations are, in this order: one memory-profiling
\* invocation (none without tracemalloc, where the peak is None and neither
\* tracing nor the GC flag was touched by that phase), w warm-up invocations,
\* the calibration invocations, and n samples of batch_size invocations each.
C9_PhaseOrder ==
    /\ (/\ pc = "returned"
        /\ get_warmups(benchmark_spec) >= 0
        /\ get_iterations(benchmark_spec) >= 0)
       => LET m == IF pypy THEN 0 ELSE 1
              w == get_warmups(benchmark_spec)
              c == C9_Tried(calib)
              n == get_iterations(benchmark_spec)
              bs == result[1].batch_size
          IN /\ Len(log) = m + w + c + n * bs
             /\ \A i \in Invocations :
                   log[i].phase = (IF i <= m THEN "memory"
                                   ELSE IF i <= m + w THEN "warmup"
                                   ELSE IF i <= m + w + c THEN "calibration"
                                   ELSE "timed")
             /\ \A i \in Invocations :
                   log[i].phase = "timed" =>
                       log[i].sample = ((i - m - w - c - 1) \div bs) + 1
             /\ Len(result[1].timings) = n
             /\ pypy => (result[1].peak_memory_usage = None /\ tracing_starts = 0)
             /\ ~pypy => (Len(result[1].peak_memory_usage) = 1 /\ tracing_starts = 1)
    /\ (pypy /\ pc = "warmup")
       => (gc_enabled = gc_at_entry /\ ~tracing /\ log = <<>>)

C9_Witness ==
    /\ pc = "returned"
    /\ ~pypy
    /\ get_warmups(benchmark_spec) = 1
    /\ get_iterations(benchmark_spec) = 2
    /\ result[1].batch_size = 2
    /\ Len(log) = 9

\* C10: with tracemalloc, the GC is enabled and tracing stopped whenever
\* run_benchmark returns, and the GC is enabled between timer calls too: the
\* py_gc_disabled policy holds only inside a timer call. Without tracemalloc
\* the GC at return is enabled iff it was at entry or the flag is false.
C10_GcStateAtReturn ==
    /\ (~pypy /\ pc = "returned") => (gc_enabled /\ ~tracing)
    /\ (~pypy /\ pc \in {"warmup", "autorange", "repeat"}) => gc_enabled
    /\ (~pypy /\ benchmark_spec.py_gc_disabled)
       => \A i \in Invocations : ~log[i].gc
    /\ (pypy /\ pc = "returned")
       => (gc_enabled = (gc_at_entry \/ ~benchmark_spec.py_gc_disabled))

C10_Witness ==
    /\ pc = "returned"
    /\ ~pypy
    /\ ~gc_at_entry
    /\ benchmark_spec.py_gc_disabled
    /\ gc_enabled
    /\ Len(log) >= 4
====
